---- MODULE Spec2Model ----
(***************************************************************************)
(* The round/session state machine of the TAG word game: App.tsx owns the  *)
(* GameState and the screen, GamePlay.tsx owns a round (draw order, round  *)
(* results, timer interval, deferred callbacks).                           *)
(*                                                                         *)
(* React is modelled by what the handlers observe: an event handler or a   *)
(* timer callback runs to completion, its state updates are batched, the   *)
(* component re-renders and its effects run, all in one step.  A timer     *)
(* callback reads the values of the render that created it, so every       *)
(* pending timer carries that render's gameState, roundWords, roundResults *)
(* and currentWord; refs are read when the callback runs.  teamScores and  *)
(* wordsUsed are objects shared by every copy of the GameState, since the  *)
(* code only ever copies the GameState shallowly ({...gameState}).         *)
(***************************************************************************)
EXTENDS Integers, Sequences, FiniteSets, TLC

\* ------------------------------------------------------------- bounds
NumWords == 2          \* words of the theme
MaxPolls == 30         \* horizon of the clock, in timer polls after Init
MaxScore == 3          \* largest score the winner computation is evaluated on

\* ------------------------------------------------- program constants
MsPerSecond == 1000    \* roundTimer * 1000, (...) / 1000
PollMs == 100          \* setInterval(..., 100)
RoundEndDelayMs == 100 \* setTimeout(..., 100) in endRound
WordActionDelayMs == 200 \* setTimeout(..., 200) in handleWordAction
AnimResetDelayMs == 150  \* setTimeout(..., 150) in handleWordAction
NULL == -1             \* null, for number | null
NoWord == 0            \* "", the empty currentWord

\* Date.now() when the session is created
StartInstants == {10000}

\* The user acts at the instants of a half-second grid, and at such an instant
\* before the callbacks due at it (a click shortly before a callback); a
\* callback runs at its due instant, whatever it is.  So the user never reacts
\* to what a callback did in no time at all, while a click may race with any
\* callback that is pending.
OnUserGrid(t) == t % 500 = 0
NextUserInstant(t) == t + 500 - (t % 500)

\* ----------------------------------------------------------- settings
selectedTeams == <<"T1", "T2">>
\* the words of the theme a session is played with
Theme == [i \in 1..NumWords |-> i]
\* rounds of two seconds and targets of one or two points: small values of
\* roundTimer and pointsRequired, which the code treats like any others
SettingsChoices ==
    [roundTimer : {2}, pointsRequired : {1, 2}, skipPenalty : BOOLEAN,
     theme : {Theme}]

VARIABLES
    settings,     \* GameSettings (the teams are the definition above)
    gameState,    \* App: the GameState, without the two shared objects
    teamScores,   \* gameState.teamScores, one object for the whole session
    wordsUsed,    \* gameState.wordsUsed, one array for the whole session
    screen,       \* App: the screen shown
    winners,      \* GamePlay: the winners its last render computed
    play,         \* GamePlay: component state and refs
    interval,     \* GamePlay: the timer interval, <<>> or <<closure>>
    timeouts,     \* pending setTimeout callbacks with their closures
    now,          \* Date.now()
    userTurn,     \* the user may act at this instant (no callback ran at it yet)
    rounds,       \* history: number of rounds started
    endLog,       \* history: the endRound calls, in order
    deliverLog,   \* history: the onRoundEnd deliveries, in order
    applyLog,     \* history: the result lists applied to the scores, in order
    pauseLog,     \* history: the rounds paused so far, the pause not yet resumed
    selectedGame, \* GameHistory: the saved game shown, <<>> or <<game>>
    resumedGame,  \* history: the saved game this GameState was resumed from
    savedState,   \* localStorage: the item tag_game_state, <<>> or <<snapshot>>
    lastOp        \* history: the last handler or callback that ran

vars == <<settings, gameState, teamScores, wordsUsed, screen, winners, play,
          interval, timeouts, now, userTurn, rounds, endLog, deliverLog,
          applyLog, pauseLog, selectedGame, resumedGame, savedState,
          lastOp>>

\* ------------------------------------------------------------ helpers
Range(s) == {s[i] : i \in 1..Len(s)}

Max(a, b) == IF a >= b THEN a ELSE b

\* Math.ceil(a / b) for b > 0
CeilDiv(a, b) == -((-a) \div b)

\* Math.floor(a / b) for b > 0
FloorDiv(a, b) == a \div b

Horizon == 10000 + MaxPolls * PollMs

\* every ordering of the elements of s (shuffleArray may return any of them)
shuffleArray(s) ==
    {p \in [1..Len(s) -> Range(s)] :
        \A i, j \in 1..Len(s) : i # j => p[i] # p[j]}

\* gameState.settings.theme.words
ThemeWords == settings.theme

\* theme words not in wordsUsed, in theme order
getAvailableWords(wu) ==
    SelectSeq(ThemeWords, LAMBDA w : w \notin Range(wu))

\* mutation: the pool is not filtered by wordsUsed
availableWordsUnfiltered(wu) == ThemeWords

\* availableWords of a render whose gameState.wordsUsed is wu
availableWords(wu) == getAvailableWords(wu)

getCurrentTeam(gs) == selectedTeams[gs.currentTeamIndex + 1]

TeamNames == Range(selectedTeams)

\* teams whose score reached the target
checkWinCondition(ts) ==
    {t \in TeamNames : ts[t] >= settings.pointsRequired}

\* teams holding the maximum score
MaxScoreTeams(ts) ==
    {t \in TeamNames : \A u \in TeamNames : ts[u] <= ts[t]}

\* mutation: one winner only, as when a single team is looked for
WinnersSingle(ts, wu) ==
    IF checkWinCondition(ts) # {}
    THEN {CHOOSE t \in checkWinCondition(ts) : TRUE}
    ELSE IF availableWords(wu) = <<>> THEN MaxScoreTeams(ts)
    ELSE {}

\* mutation: the highest score wins whether or not words remain
WinnersIgnoringPool(ts, wu) ==
    IF checkWinCondition(ts) # {} THEN checkWinCondition(ts)
    ELSE MaxScoreTeams(ts)

\* the winner computation of GamePlay's render
Winners(ts, wu) ==
    IF checkWinCondition(ts) # {} THEN checkWinCondition(ts)
    ELSE IF availableWords(wu) = <<>> THEN MaxScoreTeams(ts)
    ELSE {}

\* the score delta of a result list
RECURSIVE ScoreChange(_, _)
ScoreChange(results, skipPenalty) ==
    IF results = <<>> THEN 0
    ELSE ScoreChange(Tail(results), skipPenalty)
         + (IF Head(results).guessed THEN 1
            ELSE IF skipPenalty THEN -1 ELSE 0)

ResultWords(results) == [i \in 1..Len(results) |-> results[i].word]

GuessedCount(results) ==
    Cardinality({i \in 1..Len(results) : results[i].guessed})

\* mutation: the milliseconds left are rounded down to whole seconds
RemainingSecondsFloor(start, t) ==
    Max(0, FloorDiv(settings.roundTimer * MsPerSecond - (t - start), MsPerSecond))

\* remaining whole seconds of a countdown started at start
RemainingSeconds(start, t) ==
    Max(0, CeilDiv(settings.roundTimer * MsPerSecond - (t - start), MsPerSecond))

\* remainingTime of a render at instant t: the countdown of a running round,
\* the seconds captured at the pause of a paused one, else 0
remainingTime(gs, p, t) ==
    IF gs.isRoundActive /\ gs.roundStartTime # NULL /\ ~gs.isPaused
    THEN RemainingSeconds(gs.roundStartTime, t)
    ELSE IF gs.isPaused
    THEN (IF p.pausedRemainingTime = NULL THEN 0 ELSE p.pausedRemainingTime)
    ELSE 0

\* mutation: as many guesses as elapsed seconds already count as cheating
checkForCheatingAtLeast(guessedWordsCount, refStart, t) ==
    IF refStart = NULL THEN FALSE
    ELSE guessedWordsCount >= FloorDiv(t - refStart, MsPerSecond)

checkForCheating(guessedWordsCount, refStart, t) ==
    IF refStart = NULL THEN FALSE
    ELSE guessedWordsCount > FloorDiv(t - refStart, MsPerSecond)

\* ---------------------------------------------------------- the state
\* JSON.stringify of a GameState, which writes the two shared objects too
Snapshot(gs, ts, wu) == [gameState |-> gs, teamScores |-> ts, wordsUsed |-> wu]

initializeGameState ==
    [currentTeamIndex |-> 0, currentRound |-> 1, currentWordIndex |-> 0,
     roundStartTime |-> NULL, roundEndTime |-> NULL,
     isRoundActive |-> FALSE, isPaused |-> FALSE, roundResults |-> <<>>,
     rid |-> 0]

InitPlay ==
    [currentWord |-> NoWord, roundWords |-> <<>>, roundResults |-> <<>>,
     pausedRemainingTime |-> NULL, roundPausedOnce |-> FALSE,
     roundEndedByTimeout |-> FALSE, isCardExiting |-> FALSE,
     cheatingDetected |-> FALSE, roundResultsRef |-> <<>>,
     roundStartTimeRef |-> NULL]

Init ==
    /\ settings \in SettingsChoices
    /\ gameState = initializeGameState
    /\ teamScores = [t \in TeamNames |-> 0]
    /\ wordsUsed = <<>>
    /\ screen = "game-play"
    /\ winners = Winners(teamScores, wordsUsed)
    /\ play = InitPlay
    /\ interval = <<>>
    /\ timeouts = {}
    /\ now \in StartInstants
    /\ userTurn = TRUE
    /\ rounds = 0
    /\ endLog = <<>>
    /\ deliverLog = <<>>
    /\ applyLog = <<>>
    /\ pauseLog = [pending |-> <<>>, rids |-> {}]
    /\ selectedGame = <<>>
    /\ resumedGame = <<>>
    /\ savedState = <<Snapshot(gameState, teamScores, wordsUsed)>>
    /\ lastOp = "init"

\* a pending setTimeout callback and the values of the render it closes over
Timeout(kind, due, gs, guessed, results, words, word, live) ==
    [kind |-> kind, due |-> due, gs |-> gs, guessed |-> guessed,
     roundResults |-> results, roundWords |-> words, currentWord |-> word,
     live |-> live, refStart |-> NULL]

\* what GamePlay renders
Mounted == screen = "game-play"
WinnerScreen == Mounted /\ winners # {}
IdleScreen == Mounted /\ winners = {} /\ ~gameState.isRoundActive
PlayScreen == Mounted /\ winners = {} /\ gameState.isRoundActive


\* ------------------------------------------------------------ effects
\* the condition and the dependencies of the timer effect
TimerRuns(gs) ==
    gs.isRoundActive /\ gs.roundStartTime # NULL /\ ~gs.isPaused

TimerDepsChanged(old, new) ==
    \/ old.isRoundActive # new.isRoundActive
    \/ old.roundStartTime # new.roundStartTime

\* window.setInterval(...) of the render whose gameState is gs
NewInterval(gs) == <<[gs |-> gs, created |-> now]>>

\* the timer effect after a render: it re-runs when a dependency changed
\* (or on mount), clearing the old interval and setting a new one
TimerEffect(old, new, intv, mounting) ==
    IF mounting \/ TimerDepsChanged(old, new)
    THEN IF TimerRuns(new) THEN NewInterval(new) ELSE <<>>
    ELSE intv

\* the condition of the auto-start effect
AutoStarts(p, gs, wu) ==
    /\ p.roundEndedByTimeout
    /\ ~gs.isRoundActive
    /\ availableWords(wu) # <<>>

\* startRound with a non-empty pool: the GameState it sets
startRoundState(gs, rid) ==
    [gs EXCEPT !.isRoundActive = TRUE, !.isPaused = FALSE,
               !.roundStartTime = now, !.currentWordIndex = 0, !.rid = rid]

\* mutation: the results of the round before are kept
startRoundPlayKeepingResults(p, shuffled) ==
    [p EXCEPT !.roundWords = shuffled,
              !.currentWord = IF shuffled = <<>> THEN NoWord ELSE shuffled[1],
              !.cheatingDetected = FALSE, !.roundPausedOnce = FALSE,
              !.roundStartTimeRef = now]

\* startRound with a non-empty pool: the component state it sets
startRoundPlay(p, shuffled) ==
    [p EXCEPT !.roundWords = shuffled,
              !.currentWord = IF shuffled = <<>> THEN NoWord ELSE shuffled[1],
              !.roundResults = <<>>, !.roundResultsRef = <<>>,
              !.cheatingDetected = FALSE, !.roundPausedOnce = FALSE,
              !.roundStartTimeRef = now]

\* unmounting GamePlay: its pending callbacks still run, but their local
\* state updates are dropped; each keeps the value its refs had
Orphaned(tms, p) ==
    {IF t.live
        THEN [t EXCEPT !.live = FALSE, !.refStart = p.roundStartTimeRef]
        ELSE t : t \in {u \in tms : ~(u.live /\ u.kind = "anim")}}

\* The re-render after a handler ran: gs, p, intv, scr, ts, wu, tms are the
\* values the handler set.  GamePlay is mounted exactly on the game-play
\* screen; on mount its state is fresh; then the timer effect and the
\* auto-start effect (which calls startRound) run.
Render(gs, p, intv, scr, ts, wu, tms) ==
    /\ screen' = scr
    /\ teamScores' = ts
    /\ wordsUsed' = wu
    /\ winners' = IF scr = "game-play" THEN Winners(ts, wu) ELSE {}
    /\ IF scr # "game-play"
       THEN /\ gameState' = gs
            /\ play' = InitPlay
            /\ interval' = <<>>
            /\ timeouts' = Orphaned(tms, p)
            /\ rounds' = rounds
       ELSE LET mounting == ~Mounted
                p0 == IF mounting THEN InitPlay ELSE p
                tm0 == IF mounting THEN Orphaned(tms, p) ELSE tms
            IN  IF AutoStarts(p0, gs, wu)
                THEN \E shuffled \in shuffleArray(availableWords(wu)) :
                        /\ gameState' = startRoundState(gs, rounds + 1)
                        /\ play' = startRoundPlay(
                               [p0 EXCEPT !.roundEndedByTimeout = FALSE], shuffled)
                        /\ interval' = NewInterval(startRoundState(gs, rounds + 1))
                        /\ timeouts' = tm0
                        /\ rounds' = rounds + 1
                ELSE /\ gameState' = gs
                     /\ play' = p0
                     /\ interval' = TimerEffect(gameState, gs, intv, mounting)
                     /\ timeouts' = tm0
                     /\ rounds' = rounds

\* ------------------------------------------------------- persistence
\* The stored item once a handler ran and App re-rendered.  `left` is what
\* the handler's own storage calls left; App's effect then saves the
\* GameState when setGameState was called (by the handler, or by startRound
\* in the auto-start effect of the render).
saveEffect(setCalled, left) ==
    savedState' = IF setCalled \/ gameState' # gameState
                  THEN <<Snapshot(gameState', teamScores', wordsUsed')>>
                  ELSE left

\* ------------------------------------------------------------ actions
\* mutation: the empty-pool test is missing
startRoundNeverRefuses(pool) == FALSE

\* the empty-pool test at the head of startRound
startRoundRefuses(pool) == pool = <<>>

\* startRound, from the Start Round control of the idle screen; with an
\* empty pool the call returns without starting anything
startRound ==
    /\ userTurn
    /\ Mounted
    /\ ~gameState.isRoundActive
    /\ IdleScreen \/ availableWords(wordsUsed) = <<>>
    /\ IF startRoundRefuses(availableWords(wordsUsed))
       THEN /\ MaxScoreTeams(teamScores) # {}
            /\ lastOp' = "startRefused"
            /\ UNCHANGED <<userTurn, settings, gameState, teamScores, wordsUsed,
                           screen, winners, play, interval, timeouts, now, rounds,
                           endLog, deliverLog, applyLog, pauseLog,
                   selectedGame, resumedGame, savedState>>
       ELSE /\ \E shuffled \in shuffleArray(availableWords(wordsUsed)) :
                 /\ gameState' = startRoundState(gameState, rounds + 1)
                 /\ play' = startRoundPlay(play, shuffled)
                 /\ interval' = NewInterval(startRoundState(gameState, rounds + 1))
            /\ rounds' = rounds + 1
            /\ lastOp' = "startRound"
            /\ UNCHANGED <<userTurn, settings, teamScores, wordsUsed, screen,
                           winners, timeouts, now, endLog, deliverLog, applyLog, pauseLog,
                   selectedGame, resumedGame>>
            /\ saveEffect(TRUE, savedState)


\* mutation: the turn passes to the next team as soon as the round ends
endRoundStateRotates(gs) ==
    [gs EXCEPT !.isRoundActive = FALSE, !.roundEndTime = now,
               !.currentTeamIndex = (@ + 1) % Len(selectedTeams)]

\* endRound(timedOut) of a render whose gameState is gs; results is the value
\* of roundResultsRef it copies; live tells whether that render's component
\* is still the mounted one.  The four values it sets:
endRoundState(gs) ==
    [gs EXCEPT !.isRoundActive = FALSE, !.roundEndTime = now]

endRoundPlay(p, timedOut, live) ==
    IF live
    THEN [p EXCEPT !.roundEndedByTimeout = timedOut,
                   !.cheatingDetected = FALSE, !.roundStartTimeRef = NULL]
    ELSE p

endRoundInterval(intv, live) == IF live THEN <<>> ELSE intv

endRoundTimeout(gs, results, live) ==
    Timeout("end", now + RoundEndDelayMs, gs, FALSE, results, <<>>, NoWord, live)

\* mutation: only a running card animation makes handleWordAction return
handleWordActionRefusesBusyOnly(p) == p.isCardExiting

\* the test at the head of handleWordAction: it returns at once without a
\* current word, while the card animation runs and once cheating was detected
handleWordActionRefuses(p) ==
    p.currentWord = NoWord \/ p.isCardExiting \/ p.cheatingDetected

\* a call of handleWordAction(guessed): it starts the card animation and
\* defers the processing
handleWordActionCall(guessed) ==
    /\ IF handleWordActionRefuses(play)
       THEN /\ lastOp' = "wordRefused"
            /\ UNCHANGED <<userTurn, settings, gameState, teamScores, wordsUsed,
                           screen, winners, play, interval, timeouts, now, rounds,
                           endLog, deliverLog, applyLog, pauseLog,
                   selectedGame, resumedGame, savedState>>
       ELSE /\ play' = [play EXCEPT !.isCardExiting = TRUE]
            /\ timeouts' = timeouts \cup
                  {Timeout("word", now + WordActionDelayMs, gameState, guessed,
                           play.roundResults, play.roundWords, play.currentWord,
                           TRUE)}
            /\ lastOp' = IF guessed THEN "guess" ELSE "skip"
            /\ UNCHANGED <<userTurn, settings, gameState, teamScores, wordsUsed,
                           screen, winners, interval, now, rounds, endLog,
                           deliverLog, applyLog, pauseLog,
                   selectedGame, resumedGame, savedState>>

\* handleWordAction(guessed), from the Guessed and Skip controls (or a swipe)
\* of the play screen, which are rendered while a round runs unpaused
handleWordAction(guessed) ==
    /\ userTurn
    /\ PlayScreen
    /\ ~gameState.isPaused
    /\ handleWordActionCall(guessed)

\* the deferred processing of a word action (the 200 ms callback)
wordActionCallback(t) ==
    /\ t \in timeouts
    /\ t.kind = "word"
    /\ t.due = now
    /\ LET newResults ==
               Append(t.roundResults, [word |-> t.currentWord, guessed |-> t.guessed])
           live == t.live /\ Mounted
           refStart == IF live THEN play.roundStartTimeRef ELSE t.refStart
           isCheating == checkForCheating(GuessedCount(newResults), refStart, now)
           nextIndex == t.gs.currentWordIndex + 1
           p1 == IF live
                 THEN [play EXCEPT !.roundResults = newResults,
                                   !.roundResultsRef = newResults]
                 ELSE play
           rest == timeouts \ {t}
       IN  IF isCheating
           THEN /\ Render(gameState,
                          IF live
                          THEN [p1 EXCEPT !.cheatingDetected = TRUE,
                                          !.isCardExiting = FALSE,
                                          !.currentWord = NoWord]
                          ELSE p1,
                          interval, screen, teamScores, wordsUsed, rest)
                /\ endLog' = endLog
                /\ lastOp' = "cheatFlagged"
           ELSE IF nextIndex >= Len(t.roundWords)
           THEN /\ Render(endRoundState(t.gs),
                          endRoundPlay(
                              IF live THEN [p1 EXCEPT !.isCardExiting = FALSE] ELSE p1,
                              FALSE, live),
                          endRoundInterval(interval, live), screen, teamScores,
                          wordsUsed,
                          rest \cup {endRoundTimeout(t.gs, newResults, live)})
                /\ endLog' = Append(endLog, [rid |-> t.gs.rid, timedOut |-> FALSE,
                                             results |-> newResults])
                /\ lastOp' = "roundExhausted"
           ELSE /\ Render([t.gs EXCEPT !.currentWordIndex = nextIndex],
                          IF live
                          THEN [p1 EXCEPT !.currentWord = t.roundWords[nextIndex + 1]]
                          ELSE p1,
                          interval, screen, teamScores, wordsUsed,
                          rest \cup
                            (IF live
                             THEN {Timeout("anim", now + AnimResetDelayMs, t.gs, FALSE,
                                           <<>>, <<>>, NoWord, TRUE)}
                             ELSE {}))
                /\ endLog' = endLog
                /\ lastOp' = "wordAdvanced"
    /\ userTurn' = FALSE
    /\ UNCHANGED <<settings, now, deliverLog, applyLog, pauseLog,
                   selectedGame, resumedGame>>
    /\ saveEffect(lastOp' # "cheatFlagged", savedState)

\* the 150 ms callback that ends the card animation
animationReset(t) ==
    /\ t \in timeouts
    /\ t.kind = "anim"
    /\ t.due = now
    /\ play' = IF t.live /\ Mounted THEN [play EXCEPT !.isCardExiting = FALSE] ELSE play
    /\ timeouts' = timeouts \ {t}
    /\ lastOp' = "animationReset"
    /\ userTurn' = FALSE
    /\ UNCHANGED <<settings, gameState, teamScores, wordsUsed, screen, winners,
                   interval, now, rounds, endLog, deliverLog, applyLog, pauseLog,
                   selectedGame, resumedGame, savedState>>

\* one run of the interval callback: it reads the start instant of the render
\* that set the interval and ends the round when no time remains
timerPoll ==
    /\ interval # <<>>
    /\ now > interval[1].created
    /\ (now - interval[1].created) % PollMs = 0
    /\ IF RemainingSeconds(interval[1].gs.roundStartTime, now) <= 0
       THEN /\ Render(endRoundState(interval[1].gs),
                      endRoundPlay(play, TRUE, TRUE),
                      endRoundInterval(interval, TRUE), screen, teamScores,
                      wordsUsed,
                      timeouts \cup
                        {endRoundTimeout(interval[1].gs, play.roundResultsRef, TRUE)})
            /\ endLog' = Append(endLog, [rid |-> interval[1].gs.rid, timedOut |-> TRUE,
                                         results |-> play.roundResultsRef])
            /\ lastOp' = "timeout"
            /\ userTurn' = FALSE
            /\ UNCHANGED <<settings, now, deliverLog, applyLog, pauseLog,
                   selectedGame, resumedGame>>
            /\ saveEffect(TRUE, savedState)
       ELSE UNCHANGED vars


\* handleRoundEnd(results) of the App render whose gameState is gs: the values
\* it sets when the acting team reaches the target, and when it does not
\* mutation: skipped words cost nothing even with the skip penalty on
potentialScoreNoPenalty(gs, results) ==
    teamScores[getCurrentTeam(gs)] + GuessedCount(results)

potentialScore(gs, results) ==
    teamScores[getCurrentTeam(gs)] + ScoreChange(results, settings.skipPenalty)

\* mutation: the new score is written under a key of its own
setScoreAside(ts, team, v) ==
    [t \in DOMAIN ts \cup {"last"} |-> IF t = "last" THEN v ELSE ts[t]]

\* teamScores[team] = v: the entry is overwritten, or added when the object
\* has no such key
setScore(ts, team, v) ==
    [t \in DOMAIN ts \cup {team} |-> IF t = team THEN v ELSE ts[t]]

handleRoundEndWins(gs, results) ==
    potentialScore(gs, results) >= settings.pointsRequired

handleRoundEndScores(gs, results) ==
    IF handleRoundEndWins(gs, results)
    THEN setScore(teamScores, getCurrentTeam(gs), potentialScore(gs, results))
    ELSE teamScores

\* mutation: only the guessed words are marked as used
handleRoundEndWordsUsedGuessedOnly(gs, results) ==
    IF handleRoundEndWins(gs, results)
    THEN wordsUsed \o ResultWords(SelectSeq(results, LAMBDA r : r.guessed))
    ELSE wordsUsed

handleRoundEndWordsUsed(gs, results) ==
    IF handleRoundEndWins(gs, results)
    THEN wordsUsed \o ResultWords(results)
    ELSE wordsUsed

handleRoundEndState(gs, results) ==
    IF handleRoundEndWins(gs, results)
    THEN [gs EXCEPT !.isRoundActive = FALSE, !.roundEndTime = now]
    ELSE [gs EXCEPT !.roundResults = results]

handleRoundEndScreen(gs, results) ==
    IF handleRoundEndWins(gs, results) THEN "game-play" ELSE "round-results"

\* the 100 ms callback of endRound: it delivers the captured results to
\* onRoundEnd, which is handleRoundEnd of the render that created the callback
roundEndCallback(t) ==
    /\ t \in timeouts
    /\ t.kind = "end"
    /\ t.due = now
    /\ Render(handleRoundEndState(t.gs, t.roundResults),
              IF t.live /\ Mounted
              THEN [play EXCEPT !.roundResults = t.roundResults]
              ELSE play,
              interval,
              handleRoundEndScreen(t.gs, t.roundResults),
              handleRoundEndScores(t.gs, t.roundResults),
              handleRoundEndWordsUsed(t.gs, t.roundResults),
              timeouts \ {t})
    /\ deliverLog' = Append(deliverLog, [rid |-> t.gs.rid])
    /\ applyLog' = IF handleRoundEndWins(t.gs, t.roundResults)
                   THEN Append(applyLog, [rid |-> t.gs.rid,
                                          team |-> getCurrentTeam(t.gs),
                                          results |-> t.roundResults,
                                          won |-> TRUE])
                   ELSE applyLog
    /\ lastOp' = "roundEnd"
    /\ userTurn' = FALSE
    /\ UNCHANGED <<settings, now, endLog, pauseLog,
                   selectedGame, resumedGame>>
    /\ saveEffect(TRUE, IF handleRoundEndWins(t.gs, t.roundResults)
                        THEN <<>> ELSE savedState)

\* the lists the results screen may hand back: the pending results with any
\* of the guessed marks changed
FinalResults(results) ==
    {f \in [1..Len(results) -> [word : Range(ResultWords(results)), guessed : BOOLEAN]] :
        \A i \in 1..Len(results) : f[i].word = results[i].word}

\* mutation: the round number grows with every turn
nextTeamStateEveryTurn(gs) ==
    [gs EXCEPT !.currentTeamIndex = (@ + 1) % Len(selectedTeams),
               !.currentRound = @ + 1,
               !.roundResults = <<>>,
               !.isRoundActive = FALSE,
               !.roundStartTime = NULL,
               !.currentWordIndex = 0]

\* the turn rotation of handleRoundResultsConfirm
nextTeamState(gs) ==
    LET idx == (gs.currentTeamIndex + 1) % Len(selectedTeams)
    IN  [gs EXCEPT !.currentTeamIndex = idx,
                   !.currentRound = IF idx = 0 THEN @ + 1 ELSE @,
                   !.roundResults = <<>>,
                   !.isRoundActive = FALSE,
                   !.roundStartTime = NULL,
                   !.currentWordIndex = 0]

\* mutation: the turn rotates even when a team reached the target
confirmStateAlwaysRotates(gs, scores) == nextTeamState(gs)

\* the GameState handleRoundResultsConfirm sets once the scores are updated:
\* left as it is when a team reached the target, else rotated to the next team
confirmState(gs, scores) ==
    IF checkWinCondition(scores) # {} THEN gs ELSE nextTeamState(gs)

\* handleRoundResultsConfirm(finalResults), from the results screen
handleRoundResultsConfirm ==
    /\ userTurn
    /\ screen = "round-results"
    /\ \E finalResults \in FinalResults(gameState.roundResults) :
         LET currentTeam == getCurrentTeam(gameState)
             scores == setScore(teamScores, currentTeam,
                                teamScores[currentTeam]
                                + ScoreChange(finalResults, settings.skipPenalty))
             used == wordsUsed \o ResultWords(finalResults)
         IN  /\ Render(confirmState(gameState, scores),
                       play, interval, "game-play", scores, used, timeouts)
             /\ applyLog' = Append(applyLog, [rid |-> gameState.rid,
                                              team |-> currentTeam,
                                              results |-> finalResults,
                                              won |-> checkWinCondition(scores) # {}])
    /\ lastOp' = "confirm"
    /\ UNCHANGED <<userTurn, settings, now, endLog, deliverLog, pauseLog,
                   selectedGame, resumedGame>>
    /\ saveEffect(TRUE, IF checkWinCondition(teamScores') # {}
                        THEN <<>> ELSE savedState)

\* onBack of the results screen: back to the game without applying anything
roundResultsBack ==
    /\ userTurn
    /\ screen = "round-results"
    /\ Render(gameState, play, interval, "game-play", teamScores, wordsUsed,
              timeouts)
    /\ lastOp' = "back"
    /\ UNCHANGED <<userTurn, settings, now, endLog, deliverLog, applyLog, pauseLog,
                   selectedGame, resumedGame>>
    /\ saveEffect(FALSE, savedState)

\* array.slice(0, n) and array.slice(n)
SliceTo(s, n) == SubSeq(s, 1, IF n < Len(s) THEN n ELSE Len(s))
SliceFrom(s, n) == SubSeq(s, (IF n < Len(s) THEN n ELSE Len(s)) + 1, Len(s))

\* the remaining whole seconds stopRound captures
stopRoundRemaining(gs) ==
    RemainingSeconds(IF gs.roundStartTime = NULL THEN 0 ELSE gs.roundStartTime, now)

\* mutation: the whole draw order is reshuffled
stopRoundWordsAll(roundWords, consumed) == shuffleArray(roundWords)

\* the draw orders stopRound may set: the words already resolved stay in
\* place, the remaining ones (the current word included) are reshuffled
stopRoundWords(roundWords, consumed) ==
    {SliceTo(roundWords, consumed) \o shuffledRemaining :
        shuffledRemaining \in shuffleArray(SliceFrom(roundWords, consumed))}

\* the disabled attribute of the Pause control
stopRoundDisabled(p) == p.cheatingDetected \/ p.roundPausedOnce

\* mutation: the pause also marks the round inactive
stopRoundStateInactive(gs) ==
    [gs EXCEPT !.isPaused = TRUE, !.roundStartTime = NULL,
               !.isRoundActive = FALSE]

\* the GameState stopRound sets
stopRoundState(gs) ==
    [gs EXCEPT !.isPaused = TRUE, !.roundStartTime = NULL]

\* a call of stopRound: the interval is cleared, the remaining seconds are
\* captured, the unresolved words are reshuffled and the round is paused
stopRoundCall ==
    /\ LET consumed == Len(play.roundResults)
       IN  \E newRoundWords \in stopRoundWords(play.roundWords, consumed) :
             Render(stopRoundState(gameState),
                    [play EXCEPT
                       !.pausedRemainingTime = stopRoundRemaining(gameState),
                       !.roundWords = newRoundWords,
                       !.currentWord =
                           IF consumed < Len(newRoundWords)
                           THEN newRoundWords[consumed + 1] ELSE NoWord,
                       !.roundPausedOnce = TRUE],
                    <<>>, screen, teamScores, wordsUsed, timeouts)
    /\ pauseLog' = [pending |-> <<[rid |-> gameState.rid, at |-> now,
                                    start |-> gameState.roundStartTime,
                                    remaining |-> stopRoundRemaining(gameState)]>>,
                    rids |-> pauseLog.rids \cup {gameState.rid}]
    /\ lastOp' = "pause"
    /\ UNCHANGED <<userTurn, settings, now, endLog, deliverLog, applyLog,
                   selectedGame, resumedGame>>
    /\ saveEffect(TRUE, <<Snapshot(gameState', teamScores, wordsUsed)>>)

\* stopRound, from the Pause control of the play screen, which is rendered
\* while a round runs unpaused; a click on the disabled control calls nothing
stopRound ==
    /\ userTurn
    /\ PlayScreen
    /\ ~gameState.isPaused
    /\ IF stopRoundDisabled(play)
       THEN /\ lastOp' = "pauseRefused"
            /\ UNCHANGED <<userTurn, settings, gameState, teamScores, wordsUsed,
                           screen, winners, play, interval, timeouts, now, rounds,
                           endLog, deliverLog, applyLog, pauseLog,
                   selectedGame, resumedGame, savedState>>
       ELSE stopRoundCall

\* mutation: the countdown restarts in full at the resume
resumeRoundStartAfresh(p) == now

\* the start instant resumeRound reconstructs from the seconds captured at
\* the pause
resumeRoundStart(p) ==
    now - (settings.roundTimer
             - (IF p.pausedRemainingTime = NULL THEN 0 ELSE p.pausedRemainingTime))
          * MsPerSecond

\* mutation: the resume also moves the start instant of the cheat check
resumeRoundPlayMovingRef(p) ==
    [p EXCEPT !.pausedRemainingTime = NULL,
              !.roundStartTimeRef = resumeRoundStart(p)]

\* the component state resumeRound sets
resumeRoundPlay(p) == [p EXCEPT !.pausedRemainingTime = NULL]

\* resumeRound, from the Resume control shown while paused
resumeRound ==
    /\ userTurn
    /\ PlayScreen
    /\ gameState.isPaused
    /\ Render([gameState EXCEPT !.isPaused = FALSE,
                                !.roundStartTime = resumeRoundStart(play)],
              resumeRoundPlay(play),
              interval, screen, teamScores, wordsUsed, timeouts)
    /\ pauseLog' = [pauseLog EXCEPT !.pending = <<>>]
    /\ lastOp' = "resume"
    /\ UNCHANGED <<userTurn, settings, now, endLog, deliverLog, applyLog,
                           selectedGame, resumedGame>>
    /\ saveEffect(TRUE, <<>>)

\* ---------------------------------------------------------- the clock
\* the instant of the first poll that finds no time remaining
ExpiryPoll(iv) ==
    LET expiry == iv.gs.roundStartTime + settings.roundTimer * MsPerSecond
    IN  iv.created + PollMs * Max(1, CeilDiv(expiry - iv.created, PollMs))

\* the instants at which a pending callback must run
DueInstants ==
    {t.due : t \in timeouts} \cup
    (IF interval = <<>> THEN {} ELSE {ExpiryPoll(interval[1])})

\* Time passes to the next instant at which something can happen: a user
\* instant or the due instant of a callback, whichever comes first.  A due
\* callback runs before the clock moves on.  The clock stands still while the
\* session waits for the user with nothing pending.
Min(S) == CHOOSE x \in S : \A y \in S : x <= y

advance ==
    /\ \/ timeouts # {}
       \/ interval # <<>>
       \/ PlayScreen /\ gameState.isPaused
       \/ ~OnUserGrid(now)
    /\ now' = Min(DueInstants \cup {NextUserInstant(now)})
    /\ now' > now
    /\ now' <= Horizon
    /\ userTurn' = OnUserGrid(now')
    /\ UNCHANGED <<settings, gameState, teamScores, wordsUsed, screen, winners,
                   play, interval, timeouts, rounds, endLog, deliverLog,
                   applyLog, pauseLog, selectedGame, resumedGame, savedState,
                   lastOp>>

Next ==
    \/ startRound
    \/ \E guessed \in BOOLEAN : handleWordAction(guessed)
    \/ \E t \in timeouts : wordActionCallback(t)
    \/ \E t \in timeouts : animationReset(t)
    \/ timerPoll
    \/ \E t \in timeouts : roundEndCallback(t)
    \/ handleRoundResultsConfirm
    \/ roundResultsBack
    \/ stopRound
    \/ resumeRound
    \/ advance

Spec == Init /\ [][Next]_vars

\* ------------------------------------------- the winner computation alone
\* The winner computation of GamePlay's render is a function of the scores,
\* the target and the words used.  SpecWin evaluates it once on every
\* combination of scores, target and used words within the bounds.
ScoreChoices == [TeamNames -> -1..MaxScore]

UsedChoices ==
    UNION {{u \in [1..n -> Range(ThemeWords)] :
               \A i, j \in 1..n : i # j => u[i] # u[j]} : n \in 0..NumWords}

InitWin ==
    /\ settings \in SettingsChoices
    /\ gameState = initializeGameState
    /\ teamScores \in ScoreChoices
    /\ wordsUsed \in UsedChoices
    /\ screen = "game-play"
    /\ winners = {}
    /\ play = InitPlay
    /\ interval = <<>>
    /\ timeouts = {}
    /\ now \in StartInstants
    /\ userTurn = TRUE
    /\ rounds = 0
    /\ endLog = <<>>
    /\ deliverLog = <<>>
    /\ applyLog = <<>>
    /\ pauseLog = [pending |-> <<>>, rids |-> {}]
    /\ selectedGame = <<>>
    /\ resumedGame = <<>>
    /\ savedState = <<Snapshot(gameState, teamScores, wordsUsed)>>
    /\ lastOp = "init"

\* GamePlay renders: winners is computed from the scores and the pool
renderWinners ==
    /\ lastOp = "init"
    /\ winners' = Winners(teamScores, wordsUsed)
    /\ lastOp' = "render"
    /\ UNCHANGED <<settings, gameState, teamScores, wordsUsed, screen, play,
                   interval, timeouts, now, userTurn, rounds, endLog,
                   deliverLog, applyLog, pauseLog,
                   selectedGame, resumedGame, savedState>>

NextWin == renderWinners

SpecWin == InitWin /\ [][NextWin]_vars

\* ------------------------------------------------- the round timer alone
\* Pause and resume act on the start instant, the duration and the clock
\* only.  SpecTimer starts from a round of 1..MaxTimer seconds that has run
\* for any time up to its duration (at, just before and just after every half
\* second) and lets the user pause it, wait and resume it.
MaxTimer == 3          \* largest roundTimer of SpecTimer, in seconds

TimerSettings ==
    [roundTimer : 1..MaxTimer, pointsRequired : {1}, skipPenalty : {FALSE},
     theme : {Theme}]

\* elapsed times of a round of d seconds that has not timed out yet
ElapsedChoices(d) ==
    {k * 500 + j : k \in 0..(2 * d), j \in {-1, 0, 1}} \cap (0..(d * MsPerSecond))

InitTimer ==
    /\ settings \in TimerSettings
    /\ \E s \in StartInstants :
         /\ now \in {s + e : e \in ElapsedChoices(settings.roundTimer)}
         /\ gameState = [initializeGameState EXCEPT !.isRoundActive = TRUE,
                                                     !.roundStartTime = s,
                                                     !.rid = 1]
         /\ \E shuffled \in shuffleArray(availableWords(<<>>)) :
              play = [InitPlay EXCEPT !.roundWords = shuffled,
                                      !.currentWord = shuffled[1],
                                      !.roundStartTimeRef = s]
         /\ interval = <<[gs |-> gameState, created |-> s]>>
    /\ teamScores = [t \in TeamNames |-> 0]
    /\ wordsUsed = <<>>
    /\ screen = "game-play"
    /\ winners = {}
    /\ timeouts = {}
    /\ userTurn = TRUE
    /\ rounds = 1
    /\ endLog = <<>>
    /\ deliverLog = <<>>
    /\ applyLog = <<>>
    /\ pauseLog = [pending |-> <<>>, rids |-> {}]
    /\ selectedGame = <<>>
    /\ resumedGame = <<>>
    /\ savedState = <<Snapshot(gameState, teamScores, wordsUsed)>>
    /\ lastOp = "init"

NextTimer ==
    \/ stopRound
    \/ resumeRound
    \/ advance

SpecTimer == InitTimer /\ [][NextTimer]_vars

\* -------------------------------------------------- the cheat check alone
\* checkForCheating is a function of the number of guessed results, of the
\* start instant kept in roundStartTimeRef and of the clock.  SpecCheat puts
\* the deferred callback of a word action at the point where it has stored
\* the new results, in a round over a theme of MaxGuesses words, with any
\* marks on 1..MaxGuesses results and at, just after and just before every
\* whole second of elapsed time, and lets it run the check.
MaxGuesses == 5        \* largest number of results the check is evaluated on

ResultChoices ==
    UNION {{[i \in 1..n |-> [word |-> i, guessed |-> g[i]]] :
               g \in [1..n -> BOOLEAN]} : n \in 1..MaxGuesses}

CheatElapsedChoices ==
    {k * MsPerSecond + j : k \in 0..MaxGuesses, j \in {0, 1, MsPerSecond - 1}}

InitCheat ==
    /\ settings \in {c \in SettingsChoices : c.pointsRequired = 1 /\ ~c.skipPenalty}
    /\ \E s \in StartInstants :
         /\ now \in {s + e : e \in CheatElapsedChoices}
         /\ gameState = [initializeGameState EXCEPT !.isRoundActive = TRUE,
                                                     !.roundStartTime = s,
                                                     !.rid = 1]
         /\ \E results \in ResultChoices, ref \in {s, NULL} :
              play = [InitPlay EXCEPT !.roundResults = results,
                                      !.roundResultsRef = results,
                                      !.currentWord = Len(results),
                                      !.isCardExiting = TRUE,
                                      !.roundStartTimeRef = ref]
    /\ teamScores = [t \in TeamNames |-> 0]
    /\ wordsUsed = <<>>
    /\ screen = "game-play"
    /\ winners = {}
    /\ interval = <<>>
    /\ timeouts = {}
    /\ userTurn = FALSE
    /\ rounds = 1
    /\ endLog = <<>>
    /\ deliverLog = <<>>
    /\ applyLog = <<>>
    /\ pauseLog = [pending |-> <<>>, rids |-> {}]
    /\ selectedGame = <<>>
    /\ resumedGame = <<>>
    /\ savedState = <<Snapshot(gameState, teamScores, wordsUsed)>>
    /\ lastOp = "init"

\* the deferred callback of a word action runs the check on the results it
\* has just stored and sets the flag when the check says so
cheatCheck ==
    /\ lastOp = "init"
    /\ play' = [play EXCEPT !.cheatingDetected =
                   checkForCheating(GuessedCount(play.roundResults),
                                    play.roundStartTimeRef, now)]
    /\ lastOp' = "cheatCheck"
    /\ UNCHANGED <<settings, gameState, teamScores, wordsUsed, screen, winners,
                   interval, timeouts, now, userTurn, rounds, endLog,
                   deliverLog, applyLog, pauseLog,
                   selectedGame, resumedGame, savedState>>

NextCheat == cheatCheck

SpecCheat == InitCheat /\ [][NextCheat]_vars

\* ------------------------------------------------ resuming a saved game
\* GameHistory shows a saved game of the server and handleResumeGame turns
\* it into a GameState.  SpecResume starts on the history screen of a fresh
\* session with a saved game selected, resumes it and plays on.
MaxTurns == 2          \* most turns confirmed in a saved game

\* a || b for an optional number: b when a is undefined or 0
OrElse(a, b) == IF a = NULL \/ a = 0 THEN b ELSE a

\* The saved games of the server (GameDetailsResponse), with the target and
\* the penalty of the session's settings st.  `turns` is the number of
\* non-winning turns confirmed in the game so far.  info.current_team_index
\* and info.current_round are what the turns make them, or undefined in a
\* game no turn of which was confirmed yet.  The first team may have guessed
\* one word in a turn it played, when the target is above one point.  A game
\* saved without teams (info.teams empty) has no scores.
SavedGames(st) ==
    {g \in {[points |-> st.pointsRequired,
             round |-> r,
             skip_penalty |-> st.skipPenalty,
             current_team_index |->
                 IF tracked THEN turns % Len(selectedTeams) ELSE NULL,
             current_round |->
                 IF tracked THEN 1 + (turns \div Len(selectedTeams)) ELSE NULL,
             scores |-> [t \in teams |->
                            IF t = selectedTeams[1] THEN Len(guessed) ELSE 0],
             words_guessed |-> guessed,
             words_skipped |-> <<>>,
             turns |-> turns] :
                r \in 1..MaxTimer, turns \in 0..MaxTurns, tracked \in BOOLEAN,
                guessed \in {<<>>, <<ThemeWords[1]>>}, teams \in {TeamNames, {}}} :
        /\ g.current_round = NULL => g.turns = 0
        /\ DOMAIN g.scores = {} => (g.turns = 0 /\ g.current_round = NULL)
        /\ g.words_guessed # <<>> => (g.turns >= 1 /\ g.points > 1)}

\* the GameState handleResumeGame builds from the saved game
resumeGameState(game) ==
    [currentTeamIndex |-> OrElse(game.current_team_index, 0),
     currentRound |-> OrElse(game.current_round, game.round),
     currentWordIndex |-> Len(game.words_guessed) + Len(game.words_skipped),
     roundStartTime |-> NULL, roundEndTime |-> NULL,
     isRoundActive |-> FALSE, isPaused |-> FALSE,
     roundResults |->
         [i \in 1..Len(game.words_guessed) |->
             [word |-> game.words_guessed[i], guessed |-> TRUE]]
         \o [i \in 1..Len(game.words_skipped) |->
                [word |-> game.words_skipped[i], guessed |-> FALSE]],
     rid |-> 0]

\* setError(...) in handleResumeGame: GameHistory shows the message, the
\* saved game stays selected and nothing of the session changes
setErrorMovingOn ==
    /\ lastOp' = "resumeGameFailed"
    /\ screen' = "theme-selection"
    /\ UNCHANGED <<settings, gameState, teamScores, wordsUsed, winners, play,
                   interval, timeouts, rounds, selectedGame, resumedGame,
                   savedState>>

setError ==
    /\ lastOp' = "resumeGameFailed"
    /\ UNCHANGED <<settings, gameState, teamScores, wordsUsed, screen, winners,
                   play, interval, timeouts, rounds, selectedGame, resumedGame,
                   savedState>>

\* handleResumeGame(selectedGame) and App's onResumeGame: a saved game
\* without teams is refused with an error; else the theme is fetched, and
\* when that fails only an error is shown, else the GameState built from the
\* saved game replaces the session's and GamePlay is mounted
handleResumeGame ==
    /\ userTurn
    /\ screen = "game-history"
    /\ selectedGame # <<>>
    /\ \E fetched \in BOOLEAN :
         LET game == selectedGame[1]
         IN  IF DOMAIN game.scores = {} \/ ~fetched
             THEN setError
             ELSE /\ settings' = [roundTimer |-> game.round,
                                  pointsRequired |-> game.points,
                                  skipPenalty |-> game.skip_penalty,
                                  theme |-> Theme]
                  /\ Render(resumeGameState(game), play, interval, "game-play",
                            game.scores,
                            game.words_guessed \o game.words_skipped, timeouts)
                  /\ selectedGame' = <<>>
                  /\ resumedGame' = <<game>>
                  /\ saveEffect(TRUE, savedState)
                  /\ lastOp' = "resumeGame"
    /\ UNCHANGED <<userTurn, now, endLog, deliverLog, applyLog, pauseLog>>

\* the settings of the session the saved game is resumed in
ResumeSettings ==
    [roundTimer : {2}, pointsRequired : {2}, skipPenalty : {FALSE},
     theme : {Theme}]

InitResume ==
    /\ settings \in ResumeSettings
    /\ gameState = initializeGameState
    /\ teamScores = [t \in TeamNames |-> 0]
    /\ wordsUsed = <<>>
    /\ screen = "game-history"
    /\ winners = {}
    /\ play = InitPlay
    /\ interval = <<>>
    /\ timeouts = {}
    /\ now \in StartInstants
    /\ userTurn = TRUE
    /\ rounds = 0
    /\ endLog = <<>>
    /\ deliverLog = <<>>
    /\ applyLog = <<>>
    /\ pauseLog = [pending |-> <<>>, rids |-> {}]
    /\ selectedGame \in {<<g>> : g \in SavedGames(settings)}
    /\ resumedGame = <<>>
    /\ savedState = <<Snapshot(gameState, teamScores, wordsUsed)>>
    /\ lastOp = "init"

NextResume ==
    \/ handleResumeGame
    \/ Next

SpecResume == InitResume /\ [][NextResume]_vars

\* ------------------------------------------- the handlers without the UI
\* The Guessed, Skip and Pause controls are rendered only while a round runs
\* unpaused.  SpecCore adds calls of their handlers in the other states of
\* the mounted GamePlay: no round active, or the round paused.  The calls
\* are made before the first round, and right after a pause of the first
\* round made before any word was resolved.
NoRoundRunning == ~gameState.isRoundActive \/ gameState.isPaused

CallInstant ==
    \/ lastOp = "init"
    \/ lastOp = "pause" /\ rounds = 1 /\ play.roundResults = <<>>

handleWordActionCalled(guessed) ==
    /\ userTurn
    /\ Mounted
    /\ NoRoundRunning
    /\ CallInstant
    /\ handleWordActionCall(guessed)

stopRoundCalled ==
    /\ userTurn
    /\ Mounted
    /\ NoRoundRunning
    /\ CallInstant
    /\ stopRoundCall

\* the settings of SpecCore: one target, no penalty
CoreSettings ==
    [roundTimer : {2}, pointsRequired : {2}, skipPenalty : {FALSE},
     theme : {Theme}]

InitCore ==
    /\ Init
    /\ settings \in CoreSettings

NextCore ==
    \/ Next
    \/ \E guessed \in BOOLEAN : handleWordActionCalled(guessed)
    \/ stopRoundCalled

SpecCore == InitCore /\ [][NextCore]_vars

\* ------------------------------------------------- fair scheduling
\* The browser runs every callback that is due and the clock advances; the
\* user is free to act or not.
Fairness ==
    /\ WF_vars(advance)
    /\ WF_vars(timerPoll)
    /\ WF_vars(\E t \in timeouts : wordActionCallback(t))
    /\ WF_vars(\E t \in timeouts : animationReset(t))
    /\ WF_vars(\E t \in timeouts : roundEndCallback(t))

\* rounds of one second, so that a round and the round after it end within
\* the horizon
LiveSettings ==
    [roundTimer : {1}, pointsRequired : {2}, skipPenalty : {FALSE},
     theme : {Theme}]

InitLive ==
    /\ settings \in LiveSettings
    /\ gameState = initializeGameState
    /\ teamScores = [t \in TeamNames |-> 0]
    /\ wordsUsed = <<>>
    /\ screen = "game-play"
    /\ winners = Winners(teamScores, wordsUsed)
    /\ play = InitPlay
    /\ interval = <<>>
    /\ timeouts = {}
    /\ now \in StartInstants
    /\ userTurn = TRUE
    /\ rounds = 0
    /\ endLog = <<>>
    /\ deliverLog = <<>>
    /\ applyLog = <<>>
    /\ pauseLog = [pending |-> <<>>, rids |-> {}]
    /\ selectedGame = <<>>
    /\ resumedGame = <<>>
    /\ savedState = <<Snapshot(gameState, teamScores, wordsUsed)>>
    /\ lastOp = "init"

NextLive == Next

SpecLive == InitLive /\ [][NextLive]_vars /\ Fairness

\* ------------------------------------------------- a longer theme
\* The session of Spec, played with a theme of DeckWords words, so that a
\* draw order has a word between its first and its last.
DeckWords == 3

DeckSettings ==
    [roundTimer : {2}, pointsRequired : {2}, skipPenalty : {FALSE},
     theme : {[i \in 1..DeckWords |-> i]}]

InitDeck ==
    /\ settings \in DeckSettings
    /\ gameState = initializeGameState
    /\ teamScores = [t \in TeamNames |-> 0]
    /\ wordsUsed = <<>>
    /\ screen = "game-play"
    /\ winners = Winners(teamScores, wordsUsed)
    /\ play = InitPlay
    /\ interval = <<>>
    /\ timeouts = {}
    /\ now \in StartInstants
    /\ userTurn = TRUE
    /\ rounds = 0
    /\ endLog = <<>>
    /\ deliverLog = <<>>
    /\ applyLog = <<>>
    /\ pauseLog = [pending |-> <<>>, rids |-> {}]
    /\ selectedGame = <<>>
    /\ resumedGame = <<>>
    /\ savedState = <<Snapshot(gameState, teamScores, wordsUsed)>>
    /\ lastOp = "init"

NextDeck == Next

SpecDeck == InitDeck /\ [][NextDeck]_vars

\* ------------------------------------------------- loading a saved game
\* App is constructed on a page that may hold a saved game.  SpecLoad starts
\* from any stored item within the bounds, with a user logged in, and
\* constructs App once.
NotJson == [text |-> "{"]       \* a stored text that JSON.parse rejects
JsonNull == [text |-> "null"]   \* a stored text that parses to null

\* saved games as saveGameState writes them
WrittenSnapshots ==
    {Snapshot(initializeGameState, ts, wu) : ts \in ScoreChoices, wu \in UsedChoices}

\* parseable items that are no GameState: a score entry is missing, or the
\* settings hold no teams
BrokenSnapshots ==
    {[gameState |-> initializeGameState,
      teamScores |-> [t \in {selectedTeams[1]} |-> 0],
      wordsUsed |-> <<>>],
     [gameState |-> initializeGameState,
      teamScores |-> [t \in TeamNames |-> 0],
      wordsUsed |-> <<>>,
      selectedTeams |-> <<>>]}

StoredItems ==
    {<<>>, <<NotJson>>, <<JsonNull>>}
    \cup {<<x>> : x \in WrittenSnapshots \cup BrokenSnapshots}

\* storage.getGameState(): <<>> for null, else the parsed value
getGameState(item) ==
    IF item = <<>> THEN <<>>
    ELSE IF item[1] = NotJson THEN <<>>
    ELSE IF item[1] = JsonNull THEN <<>>
    ELSE item

\* the page before App is constructed
InitLoad ==
    /\ settings \in SettingsChoices
    /\ gameState = initializeGameState
    /\ teamScores = [t \in TeamNames |-> 0]
    /\ wordsUsed = <<>>
    /\ screen = "none"
    /\ winners = {}
    /\ play = InitPlay
    /\ interval = <<>>
    /\ timeouts = {}
    /\ now \in StartInstants
    /\ userTurn = TRUE
    /\ rounds = 0
    /\ endLog = <<>>
    /\ deliverLog = <<>>
    /\ applyLog = <<>>
    /\ pauseLog = [pending |-> <<>>, rids |-> {}]
    /\ selectedGame = <<>>
    /\ resumedGame = <<>>
    /\ savedState \in StoredItems
    /\ lastOp = "init"

\* App(): the initial screen and GameState are read from storage; a loaded
\* GameState is shown on the game screen and saved again by the effect.  The
\* winners are those GamePlay computes from a loaded GameState that has a
\* score for every team.
App ==
    /\ lastOp = "init"
    /\ screen = "none"
    /\ LET loaded == getGameState(savedState)
       IN  IF loaded = <<>>
           THEN /\ screen' = "theme-selection"
                /\ UNCHANGED <<gameState, teamScores, wordsUsed, winners>>
           ELSE /\ screen' = "game-play"
                /\ gameState' = loaded[1].gameState
                /\ teamScores' = loaded[1].teamScores
                /\ wordsUsed' = loaded[1].wordsUsed
                /\ winners' = IF DOMAIN loaded[1].teamScores = TeamNames
                              THEN Winners(loaded[1].teamScores, loaded[1].wordsUsed)
                              ELSE {}
    /\ lastOp' = "load"
    /\ UNCHANGED <<settings, play, interval, timeouts, now, userTurn, rounds,
                   endLog, deliverLog, applyLog, pauseLog, selectedGame,
                   resumedGame, savedState>>

NextLoad == App

SpecLoad == InitLoad /\ [][NextLoad]_vars

\* ------------------------------------- a page reload during a pause
\* The page is reloaded while the first round of a session is paused.
\* stopRound and App's effect wrote the snapshot; the seconds stopRound
\* captured are component state of GamePlay and are in no storage item.
\* SpecReload starts at the page before App is constructed, loads the
\* snapshot and then runs the session as Spec does.
ReloadedRid == 1

\* the GameState of a first round paused after i word actions
pausedFirstRound(i) ==
    [stopRoundState(startRoundState(initializeGameState, ReloadedRid))
        EXCEPT !.currentWordIndex = i]

\* the snapshots written while the first round is paused
PausedSnapshots ==
    {Snapshot(pausedFirstRound(i), [t \in TeamNames |-> 0], <<>>) :
        i \in 0..(NumWords - 1)}

InitReload ==
    /\ settings \in SettingsChoices
    /\ gameState = initializeGameState
    /\ teamScores = [t \in TeamNames |-> 0]
    /\ wordsUsed = <<>>
    /\ screen = "none"
    /\ winners = {}
    /\ play = InitPlay
    /\ interval = <<>>
    /\ timeouts = {}
    /\ now \in StartInstants
    /\ userTurn = TRUE
    /\ rounds = 1
    /\ endLog = <<>>
    /\ deliverLog = <<>>
    /\ applyLog = <<>>
    /\ \E remaining \in 1..settings.roundTimer :
          pauseLog = [pending |-> <<[rid |-> ReloadedRid, at |-> now,
                                     start |-> now - (settings.roundTimer - remaining)
                                                       * MsPerSecond,
                                     remaining |-> remaining]>>,
                      rids |-> {ReloadedRid}]
    /\ selectedGame = <<>>
    /\ resumedGame = <<>>
    /\ savedState \in {<<x>> : x \in PausedSnapshots}
    /\ lastOp = "init"

NextReload ==
    \/ App
    \/ Next

SpecReload == InitReload /\ [][NextReload]_vars

\* ------------------------------------------------------------- claims
\* C1: whenever applying a round's results brings the acting team's score to
\* the target or above, the winner screen is shown with that team among the
\* winners and currentTeamIndex and currentRound are not advanced; and once a
\* team has reached the target, no later step changes the acting team, the
\* round number, the screen or the winners.
C1_WinEndsSession ==
    [][/\ (/\ Len(applyLog') = Len(applyLog) + 1
           /\ teamScores'[applyLog'[Len(applyLog')].team] >= settings.pointsRequired)
          => /\ WinnerScreen'
             /\ applyLog'[Len(applyLog')].team \in winners'
             /\ getCurrentTeam(gameState') = applyLog'[Len(applyLog')].team
             /\ gameState'.currentTeamIndex = gameState.currentTeamIndex
             /\ gameState'.currentRound = gameState.currentRound
       /\ (\E t \in TeamNames : teamScores[t] >= settings.pointsRequired)
          => /\ gameState'.currentTeamIndex = gameState.currentTeamIndex
             /\ gameState'.currentRound = gameState.currentRound
             /\ screen' = "game-play"
             /\ winners' = winners]_vars

\* C1 witness: after the first team's turn, the second team reached the target
\* by confirming its results and is the winner shown
C1_WonAtConfirm ==
    /\ lastOp = "confirm"
    /\ WinnerScreen
    /\ Len(applyLog) = 2
    /\ applyLog[2].team = selectedTeams[2]
    /\ teamScores[selectedTeams[2]] >= settings.pointsRequired
    /\ gameState.currentTeamIndex = 1
    /\ winners = {selectedTeams[2]}

\* C2: applying a result list changes the acting team's score by the number
\* of guessed entries, minus the number of entries not guessed when the skip
\* penalty is on, and leaves every other team's score as it was.
C2_ScoreDelta ==
    [][Len(applyLog') = Len(applyLog) + 1 =>
         LET a == applyLog'[Len(applyLog')]
             g == Cardinality({i \in 1..Len(a.results) : a.results[i].guessed})
         IN  /\ teamScores'[a.team] - teamScores[a.team]
                  = g - (IF settings.skipPenalty THEN Len(a.results) - g ELSE 0)
             /\ \A t \in TeamNames \ {a.team} : teamScores'[t] = teamScores[t]]_vars

\* C2 witness: with the penalty on, a guessed and a skipped word were applied
\* and left the score where it was
C2_GuessAndSkipApplied ==
    /\ settings.skipPenalty
    /\ applyLog # <<>>
    /\ LET a == applyLog[Len(applyLog)]
       IN  /\ Len(a.results) = 2
           /\ a.results[1].guessed # a.results[2].guessed
           /\ teamScores[a.team] = 0

\* C3: startRound, guess, skip, the deferred word processing, pause, resume
\* and the end of a round (by timeout or by exhausting the draw order) leave
\* teamScores, wordsUsed, currentTeamIndex and currentRound unchanged; a step
\* changes one of them only when it applies a round's results.
C3_AppliedOnlyAtRoundEnd ==
    [][/\ lastOp' \in {"startRound", "startRefused", "guess", "skip",
                      "wordAdvanced", "cheatFlagged", "roundExhausted",
                      "animationReset", "pause", "resume", "timeout"}
          => /\ teamScores' = teamScores
             /\ wordsUsed' = wordsUsed
             /\ gameState'.currentTeamIndex = gameState.currentTeamIndex
             /\ gameState'.currentRound = gameState.currentRound
       /\ (\/ teamScores' # teamScores
           \/ wordsUsed' # wordsUsed
           \/ gameState'.currentTeamIndex # gameState.currentTeamIndex
           \/ gameState'.currentRound # gameState.currentRound)
          => Len(applyLog') = Len(applyLog) + 1]_vars

\* C3 witness: a round in which a word was guessed has just timed out, and
\* the score of the acting team has not moved yet
C3_GuessedNotYetScored ==
    /\ lastOp = "timeout"
    /\ endLog # <<>>
    /\ \E i \in 1..Len(endLog[Len(endLog)].results) :
          endLog[Len(endLog)].results[i].guessed
    /\ applyLog = <<>>
    /\ \A t \in TeamNames : teamScores[t] = 0

C5_ExhaustionWin ==
    /\ (WinnerScreen /\ \A t \in TeamNames : teamScores[t] < settings.pointsRequired)
       => /\ availableWords(wordsUsed) = <<>>
          /\ ~gameState.isRoundActive
          /\ winners # {}
          /\ winners = {t \in TeamNames :
                           \A u \in TeamNames : teamScores[u] <= teamScores[t]}
    /\ (Mounted /\ \E t \in TeamNames : teamScores[t] >= settings.pointsRequired)
       => winners = {t \in TeamNames : teamScores[t] >= settings.pointsRequired}

\* C5 witness: the words ran out with nobody at the target and the teams tied
C5_TiedOnExhaustion ==
    /\ WinnerScreen
    /\ \A t \in TeamNames : teamScores[t] < settings.pointsRequired
    /\ availableWords(wordsUsed) = <<>>
    /\ winners = TeamNames

\* C6: startRound with an empty pool starts nothing: no round becomes active,
\* roundStartTime, currentWordIndex and the draw order stay as they were, no
\* round is counted, and the winner screen is what is shown.
C6_EmptyPoolRefused ==
    [][(availableWords(wordsUsed) = <<>> /\ lastOp' \in {"startRound", "startRefused"})
       => /\ ~gameState'.isRoundActive
          /\ gameState'.roundStartTime = gameState.roundStartTime
          /\ gameState'.currentWordIndex = gameState.currentWordIndex
          /\ play'.roundWords = play.roundWords
          /\ rounds' = rounds
          /\ WinnerScreen']_vars

\* C6 witness: startRound was called with every word used and was refused
C6_Refused ==
    /\ lastOp = "startRefused"
    /\ availableWords(wordsUsed) = <<>>
    /\ WinnerScreen
    /\ ~gameState.isRoundActive

C8_WordsUsedGrowsByResults ==
    [][\/ wordsUsed' = wordsUsed
       \/ /\ Len(applyLog') = Len(applyLog) + 1
          /\ wordsUsed' = wordsUsed \o
                [i \in 1..Len(applyLog'[Len(applyLog')].results) |->
                    applyLog'[Len(applyLog')].results[i].word]]_vars

\* C8 witness: confirming a round applied its one skipped word, which is now
\* used, and the word that was never resolved is still available
C8_SkippedWordUsed ==
    /\ lastOp = "confirm"
    /\ applyLog # <<>>
    /\ Len(applyLog[Len(applyLog)].results) = 1
    /\ ~applyLog[Len(applyLog)].results[1].guessed
    /\ wordsUsed = <<applyLog[Len(applyLog)].results[1].word>>
    /\ availableWords(wordsUsed) # <<>>

\* C9: when a round ends by timeout, the words of the results applied for it
\* are the words recorded when the timer expired: the word in progress at that
\* moment is not among them.
C9_TimeoutExcludesWordInProgress ==
    \A i \in 1..Len(applyLog), j \in 1..Len(endLog) :
        (/\ endLog[j].timedOut
         /\ endLog[j].rid = applyLog[i].rid
         /\ \A k \in 1..(j - 1) : endLog[k].rid # endLog[j].rid
         /\ \A k \in 1..(i - 1) : applyLog[k].rid # applyLog[i].rid)
        => ResultWords(applyLog[i].results) = ResultWords(endLog[j].results)

\* C10: a round is ended by timeout at most once, and its results are
\* delivered to onRoundEnd at most once.
C10_RoundEndsOnce ==
    /\ \A i, j \in 1..Len(endLog) :
          (endLog[i].rid = endLog[j].rid /\ endLog[i].timedOut /\ endLog[j].timedOut)
          => i = j
    /\ \A i, j \in 1..Len(deliverLog) :
          deliverLog[i].rid = deliverLog[j].rid => i = j

\* C11: the remaining time computed right after a resume equals the seconds
\* captured at the pause, however long the pause lasted; so a pause followed
\* by a resume at the same instant leaves the remaining time as it was.
C11_ResumeKeepsRemaining ==
    [][(pauseLog.pending # <<>> /\ pauseLog'.pending = <<>>)
       => /\ gameState'.roundStartTime # NULL
          /\ RemainingSeconds(gameState'.roundStartTime, now')
               = pauseLog.pending[1].remaining
          /\ (pauseLog.pending[1].at = now' /\ pauseLog.pending[1].start # NULL)
             => RemainingSeconds(gameState'.roundStartTime, now')
                  = RemainingSeconds(pauseLog.pending[1].start, now')]_vars

\* C11 witness: a round of three seconds was paused with two seconds left and
\* has just been resumed, no earlier than it would have ended unpaused
C11_ResumedLate ==
    /\ lastOp = "resume"
    /\ ~gameState.isPaused
    /\ settings.roundTimer = 3
    /\ RemainingSeconds(gameState.roundStartTime, now) = 2
    /\ \E s \in StartInstants : now >= s + settings.roundTimer * MsPerSecond

\* C12: a pause followed by a resume neither lengthens nor shortens the
\* playable time of the round: the milliseconds the round had run when it was
\* paused plus the milliseconds left to run from the resume add up to the
\* round's duration.
C12_PauseExactToMs ==
    [][(/\ pauseLog.pending # <<>>
        /\ pauseLog'.pending = <<>>
        /\ pauseLog.pending[1].start # NULL
        /\ gameState'.roundStartTime # NULL)
       => (pauseLog.pending[1].at - pauseLog.pending[1].start)
          + (gameState'.roundStartTime + settings.roundTimer * MsPerSecond - now')
          = settings.roundTimer * MsPerSecond]_vars

\* C13: from a pause until the resume the round stays paused with no start
\* instant stored and no timer interval set, the remaining time shown is the
\* value captured at the pause whatever the clock says, and no step ends the
\* round by timeout.
C13_PausedTimerStands ==
    [][/\ pauseLog'.pending # <<>>
          => /\ gameState'.isPaused
             /\ gameState'.roundStartTime = NULL
             /\ interval' = <<>>
             /\ remainingTime(gameState', play', now')
                  = pauseLog'.pending[1].remaining
       /\ pauseLog.pending # <<>>
          => ~(/\ Len(endLog') = Len(endLog) + 1
               /\ endLog'[Len(endLog')].timedOut)]_vars

\* C14: while a round is active and not paused, the remaining time shown is
\* the number of milliseconds left, rounded up to whole seconds and never
\* below 0: it lies between 0 and the duration, it is 0 exactly when the whole
\* duration has elapsed since the start instant, and it does not increase
\* while the clock advances.
C14_RemainingTime ==
    [][/\ TimerRuns(gameState')
          => LET r == remainingTime(gameState', play', now')
                 left == settings.roundTimer * MsPerSecond
                           - (now' - gameState'.roundStartTime)
             IN  /\ r \in 0..settings.roundTimer
                 /\ r * MsPerSecond >= left
                 /\ r = 0 \/ (r - 1) * MsPerSecond < left
                 /\ r = 0 <=> left <= 0
       /\ (/\ TimerRuns(gameState)
           /\ TimerRuns(gameState')
           /\ gameState'.roundStartTime = gameState.roundStartTime
           /\ now' >= now)
          => remainingTime(gameState', play', now')
               <= remainingTime(gameState, play, now)]_vars

\* C14 witness: a round of two seconds has been running for a second and a
\* half, and one second is shown
C14_HalfSecondLeft ==
    /\ PlayScreen
    /\ TimerRuns(gameState)
    /\ now - gameState.roundStartTime = 1500
    /\ remainingTime(gameState, play, now) = 1

\* C15: a round is paused at most once.  A pause that takes effect is the
\* first pause of its round; a press on Pause after the round was paused and
\* resumed changes nothing (draw order, current word, GameState and timer
\* interval stay as they are); and while the round screen stays mounted the
\* paused-once marker is cleared only by the start of a new round.
C15_PausedAtMostOnce ==
    [][/\ (pauseLog'.pending # <<>> /\ pauseLog'.pending # pauseLog.pending)
          => gameState.rid \notin pauseLog.rids
       /\ lastOp' = "pauseRefused"
          => /\ gameState' = gameState
             /\ play' = play
             /\ interval' = interval
             /\ timeouts' = timeouts
       /\ (Mounted /\ Mounted' /\ play.roundPausedOnce /\ ~play'.roundPausedOnce)
          => rounds' = rounds + 1]_vars

\* C16: a pause that takes effect reshuffles only the words not yet resolved:
\* the first |roundResults| positions of the draw order keep their words, the
\* new order has the length and the words of the old one (each as often), and
\* the current word becomes the first word after the resolved ones.
C16_PauseReshufflesTail ==
    [][(pauseLog'.pending # <<>> /\ pauseLog'.pending # pauseLog.pending)
       => LET n == Len(play.roundResults)
              old == play.roundWords
              new == play'.roundWords
          IN  /\ Len(new) = Len(old)
              /\ \A i \in 1..Len(old) : i <= n => new[i] = old[i]
              /\ \A w \in Range(old) \cup Range(new) :
                    Cardinality({i \in 1..Len(new) : new[i] = w})
                      = Cardinality({i \in 1..Len(old) : old[i] = w})
              /\ n < Len(new) => play'.currentWord = new[n + 1]
              /\ play'.roundResults = play.roundResults]_vars

\* C16 witness: a round was paused after its first word had been resolved;
\* that word is still first in the draw order and the other word is current
C16_PausedAfterFirstWord ==
    /\ lastOp = "pause"
    /\ gameState.isPaused
    /\ Len(play.roundResults) = 1
    /\ Len(play.roundWords) = NumWords
    /\ play.roundWords[1] = play.roundResults[1].word
    /\ play.currentWord = play.roundWords[2]

\* C17: the cheat check flags exactly when the number of guessed results
\* exceeds the number of whole seconds elapsed since the round's start
\* instant: never with no guessed result, always with five guessed results
\* two seconds into the round, and never when the guessed results are at most
\* as many as the whole seconds elapsed.
C17_CheatGuardRule ==
    (lastOp = "cheatCheck" /\ play.roundStartTimeRef # NULL)
    => LET g == Cardinality({i \in 1..Len(play.roundResults) :
                                play.roundResults[i].guessed})
           elapsed == now - play.roundStartTimeRef
           wholeSeconds == (elapsed - (elapsed % MsPerSecond)) \div MsPerSecond
       IN  /\ play.cheatingDetected <=> g > wholeSeconds
           /\ g = 0 => ~play.cheatingDetected
           /\ (g = 5 /\ wholeSeconds = 2) => play.cheatingDetected
           /\ g <= wholeSeconds => ~play.cheatingDetected

\* C17 witness: five guessed results two seconds into the round are flagged
C17_FiveInTwoSeconds ==
    /\ lastOp = "cheatCheck"
    /\ play.roundStartTimeRef # NULL
    /\ now - play.roundStartTimeRef = 2 * MsPerSecond
    /\ Len(play.roundResults) = 5
    /\ \A i \in 1..5 : play.roundResults[i].guessed
    /\ play.cheatingDetected

\* C18: once cheating is detected in a round, no guess or skip is accepted in
\* it: a press on Guessed or Skip starts no deferred processing and changes
\* nothing, and no word action changes roundResults or currentWordIndex.  The
\* flag stays set until a step that ends the round (endRound is called, or the
\* round screen gives way to the results screen), and whenever a round starts
\* the flag is false.
C18_CheatBlocksRound ==
    [][/\ (Mounted /\ play.cheatingDetected)
          => /\ \A t \in timeouts' \ timeouts : ~(t.kind = "word" /\ t.live)
             /\ lastOp' \in {"guess", "skip", "wordRefused"}
                => /\ lastOp' = "wordRefused"
                   /\ play' = play
                   /\ gameState' = gameState
                   /\ timeouts' = timeouts
             /\ lastOp' \in {"guess", "skip", "wordRefused", "wordAdvanced",
                             "roundExhausted", "cheatFlagged"}
                => /\ play'.roundResults = play.roundResults
                   /\ gameState'.currentWordIndex = gameState.currentWordIndex
             /\ ~play'.cheatingDetected
                => (Len(endLog') = Len(endLog) + 1 \/ ~Mounted')
       /\ rounds' = rounds + 1 => ~play'.cheatingDetected]_vars

\* C18 witness: a press on Guessed or Skip was refused in a round in which
\* cheating had been detected after its first guess
C18_RefusedAfterFlag ==
    /\ lastOp = "wordRefused"
    /\ PlayScreen
    /\ play.cheatingDetected
    /\ Len(play.roundResults) = 1
    /\ play.roundResults[1].guessed
    /\ gameState.currentWordIndex = 0

confirmedTurns ==
    (IF resumedGame = <<>> THEN 0 ELSE resumedGame[1].turns)
    + Cardinality({i \in 1..Len(applyLog) : ~applyLog[i].won})

\* C20: currentTeamIndex is always an index of the team list and
\* currentRound is at least 1; within a game currentRound never decreases
\* and changes only in a step that brings currentTeamIndex back to 0; after
\* k confirmed non-winning turns currentTeamIndex is k mod the number of
\* teams and currentRound is 1 + floor(k / number of teams).
C20_RoundRobin ==
    /\ [](/\ gameState.currentTeamIndex \in 0..(Len(selectedTeams) - 1)
          /\ gameState.currentRound >= 1
          /\ gameState.currentTeamIndex = confirmedTurns % Len(selectedTeams)
          /\ gameState.currentRound
               = 1 + (confirmedTurns \div Len(selectedTeams)))
    /\ [][resumedGame' = resumedGame
          => /\ gameState'.currentRound >= gameState.currentRound
             /\ gameState'.currentRound # gameState.currentRound
                => /\ gameState.currentTeamIndex # 0
                   /\ gameState'.currentTeamIndex = 0]_vars

\* a round begins in this step without the user pressing Start
autoStarted == rounds' = rounds + 1 /\ lastOp' # "startRound"

\* C21: when a round is ended by timeout and words are still available on
\* the round screen, the next round begins in that step without a start
\* action; a round begins without a start action only after a round that
\* was ended by timeout and never by the exhaustion of its draw order.
C21_AutoContinuation ==
    [][/\ (/\ Len(endLog') = Len(endLog) + 1
           /\ endLog'[Len(endLog')].timedOut
           /\ screen' = "game-play"
           /\ availableWords(wordsUsed') # <<>>)
          => (autoStarted /\ gameState'.isRoundActive /\ gameState'.rid = rounds')
       /\ autoStarted
          => /\ Len(endLog') = Len(endLog) + 1
             /\ \A i \in 1..Len(endLog') :
                  endLog'[i].rid = endLog'[Len(endLog')].rid
                  => endLog'[i].timedOut]_vars

\* C22: while the winner screen is shown the winners, teamScores, wordsUsed,
\* currentTeamIndex and currentRound do not change, no round begins, and no
\* guess, skip, pause or resume is accepted.
C22_GameOverTerminal ==
    [][WinnerScreen
       => /\ winners' = winners
          /\ teamScores' = teamScores
          /\ wordsUsed' = wordsUsed
          /\ gameState'.currentTeamIndex = gameState.currentTeamIndex
          /\ gameState'.currentRound = gameState.currentRound
          /\ rounds' = rounds
          /\ lastOp' \notin {"startRound", "guess", "skip", "pause", "resume"}]_vars

\* C23: a guess or a skip called while no round is active or while the round
\* is paused, and a pause called while the round is paused or no round is
\* active, change nothing: the GameState, roundResults and the draw order
\* stay as they are and no deferred processing is started.
C23_IllegalCallsAreNoOps ==
    [][(/\ NoRoundRunning
        /\ Mounted
        /\ lastOp' \in {"guess", "skip", "wordRefused", "pause", "pauseRefused"})
       => /\ gameState' = gameState
          /\ play'.roundResults = play.roundResults
          /\ play'.roundWords = play.roundWords
          /\ timeouts' = timeouts]_vars

\* C24: a session starts with one score entry per selected team, each 0, and
\* in round 1; the keys of teamScores are the selected teams in every state.
C24_OneScorePerTeam ==
    /\ DOMAIN teamScores = TeamNames
    /\ Cardinality(DOMAIN teamScores) = Len(selectedTeams)
    /\ lastOp = "init"
       => /\ \A t \in TeamNames : teamScores[t] = 0
          /\ gameState.currentRound = 1

\* C24 witness: both teams had results applied, the second team scored
C24_BothTeamsScored ==
    /\ Len(applyLog) = 2
    /\ applyLog[1].team = selectedTeams[1]
    /\ applyLog[2].team = selectedTeams[2]
    /\ teamScores[selectedTeams[2]] = 1
    /\ DOMAIN teamScores = {selectedTeams[1], selectedTeams[2]}

\* C25: a pause leaves the paused GameState in storage; a resume leaves
\* storage without a saved game, and storage stays without one until the
\* next pause.
C25_ResumeClearsSnapshot ==
    [][/\ lastOp' = "pause"
          => savedState' = <<Snapshot(gameState', teamScores', wordsUsed')>>
       /\ lastOp' = "resume" => savedState' = <<>>
       /\ (savedState = <<>> /\ lastOp' # "pause") => savedState' = <<>>]_vars

\* a parsed item that is a GameState: exactly the fields saveGameState
\* writes, with one score per selected team
IsGameState(x) ==
    /\ DOMAIN x = {"gameState", "teamScores", "wordsUsed"}
    /\ DOMAIN x.teamScores = TeamNames

\* C26: once App is constructed, nothing stored or a stored text that cannot
\* be parsed gives the fresh-start screen, and the game screen is entered
\* only with a stored item that is a GameState.
C26_LoadToleratesBadData ==
    lastOp = "load"
    => /\ savedState \in {<<>>, <<NotJson>>} => screen = "theme-selection"
       /\ screen = "game-play"
          => (savedState # <<>> /\ IsGameState(savedState[1]))

\* the session as App and GamePlay hold it, and what is stored of it
session ==
    <<settings, gameState, teamScores, wordsUsed, screen, winners, play,
      interval, timeouts, rounds, savedState>>

\* C27: a resume of a saved game that has no teams, or whose theme cannot be
\* fetched, invokes no resume callback and leaves the GameState, the rest of
\* the session, the stored game and the screen as they were; a saved game
\* without teams is never resumed.
C27_FailedResumeChangesNothing ==
    [][/\ lastOp' = "resumeGameFailed"
          => (session' = session /\ resumedGame' = resumedGame)
       /\ (selectedGame # <<>> /\ DOMAIN selectedGame[1].scores = {})
          => (session' = session /\ resumedGame' = resumedGame)]_vars

\* C27 witnesses: a resume failed on the fetch of the theme of a game that
\* has teams
C27_FetchFailed ==
    /\ lastOp = "resumeGameFailed"
    /\ selectedGame # <<>>
    /\ DOMAIN selectedGame[1].scores # {}
    /\ screen = "game-history"

\* a step that processes an accepted word action (the 200 ms callback)
wordProcessed ==
    /\ \E t \in timeouts : t.kind = "word" /\ t.due = now /\ t \notin timeouts'
    /\ lastOp' \in {"cheatFlagged", "wordAdvanced", "roundExhausted"}

\* C28: the processing of an accepted guess or skip appends exactly one entry,
\* for the word shown, to roundResults, and then either sets the cheat flag
\* and leaves currentWordIndex, or advances currentWordIndex by one and shows
\* the draw order's word at the new index, or, the word being the last of
\* the draw order, ends the round with timedOut false.
C28_WordActionEffect ==
    [][wordProcessed
       => /\ Len(play'.roundResults) = Len(play.roundResults) + 1
          /\ SubSeq(play'.roundResults, 1, Len(play.roundResults)) = play.roundResults
          /\ play'.roundResults[Len(play'.roundResults)].word = play.currentWord
          /\ lastOp' = "cheatFlagged"
             => /\ play'.cheatingDetected
                /\ gameState'.currentWordIndex = gameState.currentWordIndex
          /\ lastOp' = "wordAdvanced"
             => /\ gameState'.currentWordIndex = gameState.currentWordIndex + 1
                /\ gameState'.currentWordIndex < Len(play'.roundWords)
                /\ play'.currentWord = play'.roundWords[gameState'.currentWordIndex + 1]
          /\ lastOp' = "roundExhausted"
             => /\ gameState.currentWordIndex + 1 >= Len(play.roundWords)
                /\ ~gameState'.isRoundActive
                /\ Len(endLog') = Len(endLog) + 1
                /\ ~endLog'[Len(endLog')].timedOut]_vars

\* a step in which startRound started a round, from the Start Round control
\* or from the auto-start effect
roundStarted == rounds' = rounds + 1

\* C29: a round that startRound starts has a draw order holding every word
\* of the available pool exactly once and nothing else, currentWordIndex 0,
\* isRoundActive true, isPaused false, roundStartTime now, no round results,
\* the cheat flag false and the paused-once marker false.
C29_StartRoundState ==
    [][roundStarted
       => LET pool == availableWords(wordsUsed')
              order == play'.roundWords
          IN  /\ pool # <<>>
              /\ Len(order) = Len(pool)
              /\ Range(order) = Range(pool)
              /\ \A i, j \in 1..Len(order) : order[i] = order[j] => i = j
              /\ play'.currentWord = order[1]
              /\ gameState'.currentWordIndex = 0
              /\ gameState'.isRoundActive
              /\ ~gameState'.isPaused
              /\ gameState'.roundStartTime = now'
              /\ play'.roundStartTimeRef = now'
              /\ play'.roundResults = <<>>
              /\ play'.roundResultsRef = <<>>
              /\ ~play'.cheatingDetected
              /\ ~play'.roundPausedOnce]_vars

\* C29 witness: a later round was started from the control with the words
\* left, after a round that had results
C29_SecondRoundStarted ==
    /\ lastOp = "startRound"
    /\ rounds > 1
    /\ wordsUsed # <<>>
    /\ play.roundWords = availableWords(wordsUsed)

\* C30: isPaused is true only while a round is active, so of the round
\* states running (active, not paused), paused (active, paused) and not
\* running (not active, not paused) exactly one holds in every state, also
\* after a round end, after the confirmation of the results and after a win.
C30_PausedOnlyWhileActive ==
    gameState.isPaused => gameState.isRoundActive

\* C30 witness: a round that was paused has ended and its results were
\* confirmed
C30_PausedRoundConfirmed ==
    /\ applyLog # <<>>
    /\ applyLog[Len(applyLog)].rid \in pauseLog.rids
    /\ ~gameState.isRoundActive
    /\ ~gameState.isPaused

\* C31: whenever no round is active, roundStartTime and roundEndTime are
\* both null: before the first round, between a round's end and the
\* confirmation of its results, and after the confirmation.
C31_TimestampsNullWhenInactive ==
    ~gameState.isRoundActive
    => (gameState.roundStartTime = NULL /\ gameState.roundEndTime = NULL)

\* no word occurs in two entries of the results
NoWordTwice(results) ==
    \A i, j \in 1..Len(results) : results[i].word = results[j].word => i = j

\* C32: the current round's results never have more entries than the
\* round's draw order has words, and no word occurs in them twice.
C32_ResultsWithinDrawOrder ==
    /\ Len(play.roundResults) <= Len(play.roundWords)
    /\ NoWordTwice(play.roundResults)

\* C33: the deferred processing of a guess or skip undoes neither a pause nor
\* a round end that happened since the press: a paused round stays paused
\* with no start instant, an ended round stays inactive, and no round is
\* ended a second time.
C33_DeferredKeepsTransition ==
    [][wordProcessed
       => /\ gameState.isPaused
             => (gameState'.isPaused /\ gameState'.roundStartTime = NULL)
          /\ ~gameState.isRoundActive => ~gameState'.isRoundActive
          /\ Len(endLog') > Len(endLog)
             => \A k \in 1..Len(endLog) :
                   endLog[k].rid # endLog'[Len(endLog')].rid]_vars

\* the rounds that ended and whose results were not applied to the scores yet
resultsPending ==
    {endLog[k].rid : k \in 1..Len(endLog)}
        \ {applyLog[k].rid : k \in 1..Len(applyLog)}

\* C34: no round starts while the results of an ended round are pending: when
\* a round starts, also by the auto-start after a timeout, the results of
\* every round that ended were delivered and applied.
C34_NoStartBeforeResultsApplied ==
    [][roundStarted => resultsPending' = {}]_vars

\* the teams whose score has reached the target
teamsAtTarget == {t \in TeamNames : teamScores[t] >= settings.pointsRequired}

\* C35: at most one team has a score at or above the target, and a team that
\* has is the team at currentTeamIndex, the one that just played.
C35_OnlyCurrentTeamAtTarget ==
    teamsAtTarget \subseteq {getCurrentTeam(gameState)}

\* C35 witness: the second team has reached the target
C35_SecondTeamAtTarget ==
    /\ teamsAtTarget = {selectedTeams[2]}
    /\ gameState.currentTeamIndex = 1

\* C36: while a round is active, not paused and not cheat-flagged, the
\* number of recorded results equals currentWordIndex and the word shown is
\* the draw order's word at currentWordIndex.
C36_ShownWordAtIndex ==
    (Mounted /\ gameState.isRoundActive /\ ~gameState.isPaused
        /\ ~play.cheatingDetected)
    => /\ Len(play.roundResults) = gameState.currentWordIndex
       /\ gameState.currentWordIndex < Len(play.roundWords)
       /\ play.currentWord = play.roundWords[gameState.currentWordIndex + 1]

\* a step of stopRound or of resumeRound
pausedOrResumed == pauseLog'.pending # pauseLog.pending

\* C37: the start instant the cheat check measures from is not moved by a
\* pause or a resume; after a resume it is still the instant the round was
\* started at, and a processed word sets the cheat flag exactly when the
\* guessed results outnumber the whole seconds elapsed since that instant,
\* the paused seconds included.
C37_CheatClockIgnoresPause ==
    [][/\ pausedOrResumed => play'.roundStartTimeRef = play.roundStartTimeRef
       /\ (pauseLog.pending # <<>> /\ pauseLog'.pending = <<>>
              /\ pauseLog.pending[1].start # NULL
              /\ play.roundStartTimeRef # NULL)
          => play'.roundStartTimeRef = pauseLog.pending[1].start
       /\ \A t \in timeouts :
             (wordProcessed /\ t.kind = "word" /\ t.due = now
                 /\ t \notin timeouts' /\ t.live /\ Mounted
                 /\ play.roundStartTimeRef # NULL)
             => (play'.cheatingDetected
                 <=> GuessedCount(Append(t.roundResults,
                                         [word |-> t.currentWord,
                                          guessed |-> t.guessed]))
                       > (now - play.roundStartTimeRef) \div MsPerSecond)]_vars

\* C37 witness: in a round resumed after a pause a guess was accepted less
\* than a second after the reconstructed roundStartTime, a whole second or
\* more after the round was started
C37_GuessAfterResume ==
    /\ lastOp = "wordAdvanced"
    /\ play.roundPausedOnce
    /\ ~play.cheatingDetected
    /\ GuessedCount(play.roundResults) = 1
    /\ gameState.roundStartTime # NULL
    /\ now - gameState.roundStartTime < MsPerSecond
    /\ play.roundStartTimeRef # NULL
    /\ now - play.roundStartTimeRef >= MsPerSecond

\* C38: a skip never sets the cheat flag: the flag becomes true only in a
\* step that records a guessed result.
C38_OnlyGuessFlags ==
    [][(~play.cheatingDetected /\ play'.cheatingDetected)
       => /\ Len(play'.roundResults) > 0
          /\ play'.roundResults[Len(play'.roundResults)].guessed
          /\ wordProcessed]_vars

\* no session starts more rounds than this within the horizon
MaxRounds == 6

\* the results of round r were delivered to onRoundEnd
roundDelivered(r) == \E k \in 1..Len(deliverLog) : deliverLog[k].rid = r

\* the round the GameState is in runs unpaused and is due to time out and
\* to be delivered within the horizon of the model
runningInTime ==
    /\ gameState.isRoundActive
    /\ ~gameState.isPaused
    /\ gameState.roundStartTime # NULL
    /\ gameState.roundStartTime + settings.roundTimer * MsPerSecond
         + PollMs + RoundEndDelayMs <= Horizon

\* C39: every round that is active and not paused eventually ends: unless it
\* is paused, isRoundActive becomes false and the round's results are
\* delivered.
C39_RunningRoundEnds ==
    \A r \in 1..MaxRounds :
        (runningInTime /\ gameState.rid = r)
            ~> (gameState.isPaused \/ roundDelivered(r))

\* C40: the seconds captured at a pause are not in the persisted snapshot.
\* When the page is reloaded from a snapshot saved during a pause, the loaded
\* GamePlay holds no captured seconds although the pause had captured some;
\* a resume of the reloaded round then sets roundStartTime to
\* now - roundTimer * 1000, and the reloaded round is ended by the timeout
\* only, with no result recorded.
inReloadedRound == gameState.rid = ReloadedRid

====
